---- MODULE Spec2Model ----
(***************************************************************************)
(* A model of NeoPixelPlus: the strip surface (NeoPixel), its section      *)
(* addressing, and the two reference animations, LightUp ("pulse") and     *)
(* RainbowAnimation.                                                       *)
(*                                                                         *)
(* Numbers.  Brightness values are held in thousandths (1000 = 1.0), the   *)
(* fadeout multiplier in tenths, delays in microseconds, virtual time in   *)
(* milliseconds.  Python's round() is round-half-to-even on the value the  *)
(* float holds; the inputs below are chosen so that the decimal value and  *)
(* the float agree on every rounding the model performs, and the one       *)
(* place where float drift decides a tie (fadeout) is tabulated.           *)
(*                                                                         *)
(* Logging.  Nothing in the repository configures the logging module, so   *)
(* a module's logger sits at its default level and logger.debug(msg, ...)  *)
(* is a no-op; logger.debug() without a message raises TypeError at any    *)
(* level, and the name logger is not bound at all in rainbow.py.           *)
(***************************************************************************)
EXTENDS Integers, Sequences, FiniteSets, TLC

(***************************************************************************)
(* Bounds of the model.                                                    *)
(***************************************************************************)
MaxLoopLimit == 3
MaxCycles == 2
MaxLoops == 40
MaxStartLed == 1
MaxStripOps == 3

(***************************************************************************)
(* Program constants.                                                      *)
(***************************************************************************)
sections_length == 15
full_duration == 1000
loops_per_second == 17
default_rate == 60
DefaultWaitUs == 27778
FadeoutWaitUs == 1000

None == 0
pause_write_ms == 10

(***************************************************************************)
(* Arithmetic helpers.                                                     *)
(***************************************************************************)
\* round(num/den) as Python 3 computes it for a value the float holds
\* exactly or far from a tie: round half to even.  num >= 0, den > 0.
RoundHalfEven(num, den) ==
    LET q == num \div den
        r == num % den
    IN  IF 2 * r < den THEN q
        ELSE IF 2 * r > den THEN q + 1
        ELSE IF q % 2 = 0 THEN q ELSE q + 1

\* the conditional had it no lower limit
SaturateAbove(c) == IF c > 255 THEN 255 ELSE c

\* the saturating conditional of fadeout() and color()
Saturate(c) == IF c <= 255 /\ c >= 0 THEN c ELSE IF c > 255 THEN 255 ELSE 0

Black == <<0, 0, 0>>
White == <<255, 255, 255>>

(***************************************************************************)
(* Section addressing (NeoPixel.get_sections, NeoPixel.get_led_selectors). *)
(***************************************************************************)

\* get_sections(): consecutive chunks of sections_length indices, the last
\* chunk is not trimmed to the strip.
get_sections(n) ==
    LET count == (n + sections_length - 1) \div sections_length
    IN  [k \in 1..count |->
            [j \in 1..sections_length |-> (k - 1) * sections_length + (j - 1)]]

\* range(1, n + 1) in its place
RangeFromOne(n) == [j \in 1..n |-> j]

\* range(n) as a sequence
Range(n) == [j \in 1..n |-> j - 1]

\* Python list indexing lst[k]: a negative k counts from the end, anything
\* outside -len..len-1 raises IndexError.
PyIndex(lst, k) ==
    IF k >= 0 /\ k < Len(lst) THEN [ok |-> TRUE, pos |-> k + 1]
    ELSE IF k < 0 /\ k >= 0 - Len(lst) THEN [ok |-> TRUE, pos |-> Len(lst) + k + 1]
    ELSE [ok |-> FALSE, pos |-> 0]

\* A section name is a sequence of one-character strings.
Lower(c) == IF c = "S" THEN "s" ELSE IF c = "X" THEN "x" ELSE c

LowerNoSpace(name) ==
    LET low == [j \in 1..Len(name) |-> Lower(name[j])]
    IN  SelectSeq(low, LAMBDA c : c # " ")

SectionWord == <<"s", "e", "c", "t", "i", "o", "n">>

MatchAt(s, i) ==
    /\ i + Len(SectionWord) - 1 <= Len(s)
    /\ \A j \in 1..Len(SectionWord) : s[i + j - 1] = SectionWord[j]

\* x.split("section")[-1]: what follows the last occurrence of the word
\* (the word cannot overlap itself), or the whole string without one.
AfterLastSection(s) ==
    LET hits == {i \in 1..Len(s) : MatchAt(s, i)}
    IN  IF hits = {} THEN s
        ELSE LET last == CHOOSE i \in hits : \A h \in hits : h <= i
             IN  SubSeq(s, last + Len(SectionWord), Len(s))

Digits == <<"0", "1", "2", "3", "4", "5", "6", "7", "8", "9">>
IsDigit(c) == \E d \in 1..10 : Digits[d] = c
DigitValue(c) == (CHOOSE d \in 1..10 : Digits[d] = c) - 1

RECURSIVE DigitsValue(_)
DigitsValue(s) ==
    IF Len(s) = 0 THEN 0
    ELSE DigitsValue(SubSeq(s, 1, Len(s) - 1)) * 10 + DigitValue(s[Len(s)])

\* int(text) for text made of an optional sign and decimal digits; any
\* other text (the empty one included) raises ValueError.
ParseInt(s) ==
    LET signed == Len(s) > 0 /\ s[1] \in {"+", "-"}
        body   == IF signed THEN SubSeq(s, 2, Len(s)) ELSE s
    IN  IF Len(body) > 0 /\ \A j \in 1..Len(body) : IsDigit(body[j])
        THEN [ok |-> TRUE,
              val |-> IF signed /\ s[1] = "-" THEN 0 - DigitsValue(body)
                      ELSE DigitsValue(body)]
        ELSE [ok |-> FALSE, val |-> 0]

\* the conversion without its "- 1"
NameToIndexOneBased(name) ==
    LET p == ParseInt(AfterLastSection(LowerNoSpace(name)))
    IN  [ok |-> p.ok, val |-> p.val]

\* int(x.lower().replace(" ", "").split("section")[-1]) - 1
NameToIndex(name) ==
    LET p == ParseInt(AfterLastSection(LowerNoSpace(name)))
    IN  [ok |-> p.ok, val |-> p.val - 1]

RECURSIVE Gather(_, _)
\* selected_leds += self.sections[entry], entry by entry
Gather(sects, entries) ==
    IF Len(entries) = 0 THEN [status |-> "ok", leds |-> <<>>]
    ELSE LET ix   == PyIndex(sects, Head(entries))
             rest == Gather(sects, Tail(entries))
         IN  IF ~ix.ok THEN [status |-> "IndexError", leds |-> <<>>]
             ELSE IF rest.status # "ok" THEN rest
             ELSE [status |-> "ok", leds |-> sects[ix.pos] \o rest.leds]

\* Selectors: a keyword, a list of section indices or a list of names.
Keyword(w) == [kind |-> "str", word |-> w, ints |-> <<>>, names |-> <<>>]
IndexList(l) == [kind |-> "ints", word |-> "", ints |-> l, names |-> <<>>]
NameList(l) == [kind |-> "names", word |-> "", ints |-> <<>>, names |-> l]

\* get_led_selectors() had it taken every keyword but "all" for "random"
get_led_selectors_else_random(n, sel, pick) ==
    LET sects == get_sections(n)
    IN  IF sel.kind = "str" THEN
            IF sel.word = "all" THEN [status |-> "ok", leds |-> Range(n)]
            ELSE [status |-> "ok", leds |-> sects[pick + 1]]
        ELSE IF sel.kind = "ints" THEN
            IF Len(sel.ints) = 0 THEN [status |-> "IndexError", leds |-> <<>>]
            ELSE Gather(sects, sel.ints)
        ELSE
            IF Len(sel.names) = 0 THEN [status |-> "IndexError", leds |-> <<>>]
            ELSE LET parsed == [j \in 1..Len(sel.names) |-> NameToIndex(sel.names[j])]
                 IN  IF \E j \in 1..Len(parsed) : ~parsed[j].ok
                     THEN [status |-> "ValueError", leds |-> <<>>]
                     ELSE Gather(sects, [j \in 1..Len(parsed) |-> parsed[j].val])

\* get_led_selectors(sections); pick is the value randint() returns.  The
\* result carries the exception the call ends with, or "None" when the
\* function falls off its end without a return.
get_led_selectors(n, sel, pick) ==
    LET sects == get_sections(n)
    IN  IF sel.kind = "str" THEN
            IF sel.word = "all" THEN [status |-> "ok", leds |-> Range(n)]
            ELSE IF sel.word = "random" THEN
                [status |-> "ok", leds |-> sects[pick + 1]]
            ELSE [status |-> "None", leds |-> <<>>]
        ELSE IF sel.kind = "ints" THEN
            IF Len(sel.ints) = 0 THEN [status |-> "IndexError", leds |-> <<>>]
            ELSE Gather(sects, sel.ints)
        ELSE
            IF Len(sel.names) = 0 THEN [status |-> "IndexError", leds |-> <<>>]
            ELSE LET parsed == [j \in 1..Len(sel.names) |-> NameToIndex(sel.names[j])]
                 IN  IF \E j \in 1..Len(parsed) : ~parsed[j].ok
                     THEN [status |-> "ValueError", leds |-> <<>>]
                     ELSE Gather(sects, [j \in 1..Len(parsed) |-> parsed[j].val])

\* get_led(i): the logical index plus start_led, plus the addressable
\* length when that sum is negative (start is None for the animations here).
get_led(i, start_led, n) ==
    LET j == i + start_led
    IN  IF j < 0 THEN j + n ELSE j

(***************************************************************************)
(* Color model (neopixel_plus.helper.Color, used by LightUp).              *)
(***************************************************************************)
Palette == << <<255, 0, 0>>, <<10, 200, 255>> >>

\* correct(): brightness snapped into [0, brightness_max]
ColorCorrect(b, bmax) == IF b < 0 THEN 0 ELSE IF b > bmax THEN bmax ELSE b

\* selected: the palette entry scaled by brightness, channel by channel
ColorSelected(cur, b) ==
    [c \in 1..3 |-> Saturate((Palette[cur][c] * b) \div 1000)]

\* next(): the cursor advances circularly
ColorNext(cur) == IF cur = Len(Palette) THEN 1 ELSE cur + 1

(***************************************************************************)
(* LightUp arithmetic.                                                     *)
(***************************************************************************)
\* round(brightness_max, 1), in tenths
RoundedBrightness(bmax) == RoundHalfEven(bmax, 100)

\* write_wait_time = duration_ms / ((round(brightness_max, 1) / 0.1) * 2) / 1000,
\* in microseconds; a rounded brightness of 0 divides by zero.
write_wait_time(duration_ms, bmax) ==
    LET r == RoundedBrightness(bmax)
    IN  IF r = 0 THEN [ok |-> FALSE, us |-> 0]
        ELSE [ok |-> TRUE, us |-> (duration_ms * 1000) \div (r * 2)]

\* step_height = round(brightness_max / 10, 2), in thousandths
step_height(bmax) == RoundHalfEven(bmax, 100) * 10

(***************************************************************************)
(* RainbowAnimation arithmetic.                                            *)
(***************************************************************************)
\* get_max_counter() had it rounded halves up instead of to even
get_max_counter_half_up(duration_ms) ==
    (2 * duration_ms * loops_per_second + full_duration) \div (2 * full_duration)

\* get_max_counter(): round((duration_ms / full_duration) * loops)
get_max_counter(duration_ms) ==
    RoundHalfEven(duration_ms * loops_per_second, full_duration)

\* set_time_passed_ms(): added_ms = (full_duration / duration_ms) * default_rate
added_ms(duration_ms) == (full_duration * default_rate) \div duration_ms

\* the chain had it tested the end of the cycle before its start
set_brightness_end_first(duration_ms, pause_ms, bmax, counter, max_counter) ==
    IF duration_ms # None /\ pause_ms # None /\ counter = max_counter - 2
         THEN (6 * bmax) \div 10
    ELSE IF duration_ms # None /\ pause_ms # None /\ counter = max_counter - 1
         THEN (3 * bmax) \div 10
    ELSE IF duration_ms # None /\ pause_ms # None /\ counter = 0 THEN (3 * bmax) \div 10
    ELSE IF duration_ms # None /\ pause_ms # None /\ counter = 1 THEN (6 * bmax) \div 10
    ELSE bmax

\* the brightness glow() picks for one iteration, in thousandths
set_brightness(duration_ms, pause_ms, bmax, counter, max_counter) ==
    IF duration_ms # None /\ pause_ms # None /\ counter = 0 THEN (3 * bmax) \div 10
    ELSE IF duration_ms # None /\ pause_ms # None /\ counter = 1 THEN (6 * bmax) \div 10
    ELSE IF duration_ms # None /\ pause_ms # None /\ counter = max_counter - 2
         THEN (6 * bmax) \div 10
    ELSE IF duration_ms # None /\ pause_ms # None /\ counter = max_counter - 1
         THEN (3 * bmax) \div 10
    ELSE bmax

IterationBrightness(duration_ms, pause_ms, bmax, lp, counter, max_counter) ==
    IF lp < 10 THEN ((1 + lp) * bmax) \div 10
    ELSE set_brightness(duration_ms, pause_ms, bmax, counter, max_counter)

\* 1000 * (0.5 + 0.5 * cos(6.28318 * p / 100)) for p = 0..99
CosTable ==
    << 1000, 999, 996, 991, 984, 976, 965, 952, 938, 922,
       905, 885, 864, 842, 819, 794, 768, 741, 713, 684,
       655, 624, 594, 563, 531, 500, 469, 437, 406, 376,
       345, 316, 287, 259, 232, 206, 181, 158, 136, 115,
       95, 78, 62, 48, 35, 24, 16, 9, 4, 1,
       0, 1, 4, 9, 16, 24, 35, 48, 62, 78,
       95, 115, 136, 158, 181, 206, 232, 259, 287, 316,
       345, 376, 406, 437, 469, 500, 531, 563, 594, 624,
       655, 684, 713, 741, 768, 794, 819, 842, 864, 885,
       905, 922, 938, 952, 965, 976, 984, 991, 996, 999 >>

\* the clamp of rainbow_color(): r if r < 255 and r > 0 else 255 if r >= 255 else 0
RainbowClamp(c) == IF c < 255 /\ c > 0 THEN c ELSE IF c >= 255 THEN 255 ELSE 0

\* rainbow_color(t, i, brightness): k = t/1000 + 0.05*i taken in hundredths
\* of a turn, the three channels 0, 33 and 67 hundredths apart.
rainbow_color(t, i, b) ==
    LET k == (t \div 10) + 5 * i
        chan(off) == RainbowClamp((255 * CosTable[((k + off) % 100) + 1] * b) \div 1000000)
    IN  <<chan(0), chan(33), chan(67)>>

(***************************************************************************)
(* Strip surface arithmetic.                                               *)
(***************************************************************************)
\* round(channel * brightness) in fadeout(), brightness = m tenths as the
\* float holds it after repeated subtraction of 0.1: 0.9 and 0.8 are the
\* decimal's own floats, from 0.7 down the float lies just above the
\* decimal, so a tie is rounded up unless the product is rounded back onto
\* the tie (m = 7 with 95 and 195, where the even neighbour is below).
FadeRound(led, m) ==
    LET q == (led * m) \div 10
        r == (led * m) % 10
    IN  IF r < 5 THEN q
        ELSE IF r > 5 THEN q + 1
        ELSE IF m = 9 THEN (IF q % 2 = 0 THEN q ELSE q + 1)
        ELSE IF m = 7 /\ led \in {95, 195} THEN q
        ELSE q + 1

FadeTriple(rgb, m) == [c \in 1..3 |-> Saturate(FadeRound(rgb[c], m))]

\* time.sleep(secs): a negative argument raises ValueError
Sleep(us) == IF us < 0 THEN "ValueError" ELSE "ok"

\* logger.debug(...) at the default level: a call with a message does
\* nothing, a call without one raises TypeError.
LoggerDebug(has_msg) == IF has_msg THEN "ok" ELSE "TypeError"

(***************************************************************************)
(* State.                                                                  *)
(***************************************************************************)
VARIABLES
    strip,          \* NeoPixel: strip_length, start_led
    anim,           \* the animation's parameters, kind "pulse" or "rainbow"
    leds,           \* NeoPixel.leds, indexed 0..strip_length-1
    pc,             \* where the run is
    error,          \* the exception the run ended with, "" without one
    loops,          \* LightUp.loops / the local loops of RainbowAnimation.glow
    phase,          \* LightUp: "up" or "down" ramp
    steps,          \* LightUp: steps of the running ramp
    brightness,     \* Color.brightness / RainbowAnimation.brightness
    cursor,         \* Color: palette cursor
    selected_leds,  \* LightUp.selected_leds, as get_led_selectors returned it
    wait_us,        \* LightUp.write_wait_time
    counter,        \* RainbowAnimation.glow: counter
    max_counter,    \* RainbowAnimation.glow: max_counter
    time_passed_ms, \* RainbowAnimation.time_passed_ms
    fade,           \* fadeout(): brightness, in tenths
    cancelled,      \* a KeyboardInterrupt was raised in the try block
    obs             \* what an observer of the strip has seen (history)

vars == <<strip, anim, leds, pc, error, loops, phase, steps, brightness, cursor,
          selected_leds, wait_us, counter, max_counter, time_passed_ms, fade,
          cancelled, obs>>

config == <<strip, anim>>
pulse_state == <<phase, steps, cursor, selected_leds, wait_us>>
rainbow_state == <<counter, max_counter, time_passed_ms>>

N == strip.strip_length
Indices == 0..(N - 1)

AllLeds(rgb) == [i \in Indices |-> rgb]

(***************************************************************************)
(* Inputs.                                                                 *)
(***************************************************************************)
NameSection0 == <<"S", "e", "c", "t", "i", "o", "n", " ", "0">>
NameSection1 == <<"S", "e", "c", "t", "i", "o", "n", " ", "1">>
NameSection2 == <<"S", "e", "c", "t", "i", "o", "n", " ", "2">>
NameSection3 == <<"s", "e", "c", "t", "i", "o", "n", "3">>
NameSectionX == <<"S", "e", "c", "t", "i", "o", "n", " ", "x">>
NameBare     == <<"S", "e", "c", "t", "i", "o", "n">>

Selectors ==
    { Keyword("all"), Keyword("random"), Keyword("every"),
      IndexList(<<0>>), IndexList(<<1>>), IndexList(<<2>>), IndexList(<<0 - 1>>),
      IndexList(<<0 - 3>>), IndexList(<<0, 1>>),
      NameList(<<NameSection0>>), NameList(<<NameSection1>>),
      NameList(<<NameSection2>>), NameList(<<NameSection3>>),
      NameList(<<NameSectionX>>), NameList(<<NameBare>>) }

PulseLengths == {3, 16, 30}
RainbowLengths == {3}
PulseBrightness == {4, 140, 160, 500, 1000}
RainbowBrightness == {500, 1000, 2000}
ColorLengths == {3}
StripLengths == {3}
StripColors == {<<255, 0, 0>>, <<0, 0, 255>>}
\* rgb_colors of color(): no channel is an odd multiple of 5, so that no
\* product with a brightness in tenths falls on a rounding tie
ColorInputs == {<<254, 0, 128>>, <<300, 0 - 20, 7>>}
PulseDurations == {0 - 200, 0, 200}
RainbowDurations == {100, 500, 1000, 1500}
Pauses == {None, 200}
RainbowPauses == Pauses \cup {5}

PulseParams ==
    { [kind |-> "pulse", loop_limit |-> l, duration_ms |-> d, pause_ms |-> p,
       brightness_max |-> b, sections |-> s, logger_bound |-> TRUE,
       rgb_colors |-> Palette] :
        l \in 0..MaxCycles, d \in PulseDurations, p \in Pauses,
        b \in PulseBrightness, s \in Selectors }

RainbowParams ==
    { [kind |-> "rainbow", loop_limit |-> l, duration_ms |-> d, pause_ms |-> p,
       brightness_max |-> b, sections |-> Keyword("all"), logger_bound |-> g,
       rgb_colors |-> <<>>] :
        l \in 0..MaxLoopLimit, d \in RainbowDurations, p \in RainbowPauses,
        b \in RainbowBrightness, g \in BOOLEAN }

\* NeoPixel.color(rgb_colors): the other fields are not parameters of it
ColorParams ==
    { [kind |-> "color", loop_limit |-> None, duration_ms |-> None, pause_ms |-> None,
       brightness_max |-> 1000, sections |-> Keyword("all"), logger_bound |-> TRUE,
       rgb_colors |-> <<c>>] : c \in ColorInputs }

\* the strip used as a library, without an animation
StripParams ==
    { [kind |-> "strip", loop_limit |-> None, duration_ms |-> None, pause_ms |-> None,
       brightness_max |-> 1000, sections |-> Keyword("all"), logger_bound |-> TRUE,
       rgb_colors |-> <<>>] }

NoObs(n) ==
    [ frames      |-> 0,        \* frames committed since glow() was entered
      last_frame  |-> [i \in 0..(n - 1) |-> Black],  \* the frame committed last
      last_kind   |-> "",       \* what committed it: on, off, ramp, rainbow, fade
      last_wait_us |-> 0,       \* the sleep that followed it
      last_sleep_us |-> 0,      \* the argument of the last time.sleep() call
      ramp        |-> <<>>,     \* brightness of the ramp frames of this cycle
      ramp_us     |-> 0,        \* pacing delays of the ramp frames of this cycle
      ramp_frames |-> 0,        \* ramp frames committed since glow() was entered
      fade_frames |-> 0,        \* frames fadeout() committed
      fade_mults  |-> <<>>,     \* the multiplier of each of them, in tenths
      cycles      |-> 0,        \* cycles completed
      limit_hit   |-> FALSE,    \* the loop counter has met loop_limit
      last_iter   |-> "",       \* the last rainbow loop iteration: frame or end
      rb_levels   |-> <<>>,     \* brightness of the first ten rainbow frames
      last_rb     |-> [lp |-> 0, counter |-> 0, b |-> 0],  \* loops, counter and
                                \* brightness the last rainbow frame was rendered with
      cycle_frames |-> 0,       \* rainbow frames committed since the last completion
      end_frames  |-> 0,        \* the same, as the last cycle-end iteration found it
      end_commits |-> 0,        \* frames the last cycle-end iteration committed
      ops         |-> 0,        \* insert_led() and append_led() calls made
      last_op     |-> [name |-> "", position |-> 0, rgb |-> Black],  \* the last of them
      prev_leds   |-> [i \in 0..(n - 1) |-> Black],  \* leds before it
      resolved    |-> 0,        \* selector resolutions since glow() was entered
      cycle_sets  |-> {},       \* the index sets the ramp frames of this cycle stored to
      first_sel   |-> <<>>,     \* what the first of them returned
      written     |-> {},       \* indices the last frame assembly stored to
      leds0       |-> [i \in 0..(n - 1) |-> Black],  \* leds when glow() was entered
      cycle_leds0 |-> [i \in 0..(n - 1) |-> Black],  \* leds when the pulse cycle started
      off_frames  |-> 0,        \* frames off() committed
      cancel_leds |-> [i \in 0..(n - 1) |-> Black],  \* leds when the interrupt arrived
      after_cancel |-> 0 ]      \* animation frames committed after the interrupt

Init ==
    /\ \E n \in PulseLengths \cup RainbowLengths \cup ColorLengths \cup StripLengths, sl \in (0 - MaxStartLed)..MaxStartLed :
          strip = [strip_length |-> n, start_led |-> sl]
    /\ anim \in PulseParams \cup RainbowParams \cup ColorParams \cup StripParams
    /\ anim.kind = "pulse" => strip.strip_length \in PulseLengths /\ strip.start_led = 0
    /\ anim.kind = "pulse" /\ anim.sections # Keyword("all") => anim.brightness_max = 1000
    /\ anim.kind = "pulse" /\ strip.strip_length < sections_length =>
          anim.sections \in {Keyword("random"), Keyword("all")}
    /\ anim.kind = "pulse" /\ anim.duration_ms # 200 =>
          /\ anim.sections = Keyword("all") /\ anim.brightness_max = 1000
          /\ anim.pause_ms = None /\ strip.strip_length = 16
    /\ anim.kind = "rainbow" => strip.strip_length \in RainbowLengths
    /\ anim.kind = "rainbow" /\ anim.brightness_max > 1000 =>
          /\ anim.duration_ms = full_duration /\ anim.pause_ms = None
          /\ anim.logger_bound /\ strip.start_led = 0
    /\ anim.kind = "color" => strip.strip_length \in ColorLengths
    /\ anim.kind = "strip" => strip.strip_length \in StripLengths /\ strip.start_led = 0
    /\ leds = [i \in 0..(strip.strip_length - 1) |-> Black]
    /\ pc = "idle"
    /\ error = ""
    /\ loops = 0
    /\ phase = "up"
    /\ steps = 0
    /\ brightness = 0
    /\ cursor = 1
    /\ selected_leds = [status |-> "ok", leds |-> <<>>]
    /\ wait_us = 0
    /\ counter = 0
    /\ max_counter = 0
    /\ time_passed_ms = 0
    /\ fade = 9
    /\ cancelled = FALSE
    /\ obs = NoObs(strip.strip_length)

(***************************************************************************)
(* write(s_after_wait): the buffer is committed to the driver, then the    *)
(* caller sleeps.  Commit(o, frame, kind, us) is the observer's record.    *)
(***************************************************************************)
Commit(o, frame, kind, us) ==
    [o EXCEPT !.frames = @ + 1,
              !.last_wait_us = us,
              !.last_sleep_us = us,
              !.last_frame = frame,
              !.last_kind = kind,
              !.after_cancel = IF cancelled /\ kind # "fade" THEN @ + 1 ELSE @,
              !.off_frames = IF kind = "off" THEN @ + 1 ELSE @,
              !.fade_frames = IF kind = "fade" THEN @ + 1 ELSE @]

(***************************************************************************)
(* Strip operations used before an animation starts.                       *)
(***************************************************************************)
\* on(): every LED white, one write()
StripOn ==
    /\ pc = "idle"
    /\ leds = AllLeds(Black)
    /\ leds' = AllLeds(White)
    /\ obs' = Commit(obs, AllLeds(White), "on", DefaultWaitUs)
    /\ UNCHANGED <<config, pc, error, loops, brightness, pulse_state,
                   rainbow_state, fade, cancelled>>

\* list.insert(position, x): a negative position counts from the end, and
\* a position outside the list is moved to its nearer end
ListInsert(l, position, x) ==
    LET q  == IF position < 0 THEN position + Len(l) ELSE position
        at == IF q < 0 THEN 0 ELSE IF q > Len(l) THEN Len(l) ELSE q
    IN  SubSeq(l, 1, at) \o <<x>> \o SubSeq(l, at + 1, Len(l))

\* the buffer as a list and back, self.leds[i] = leds[i] for every i
AsList(buf) == [j \in 1..N |-> buf[j - 1]]
WriteBack(buf, l) == [i \in Indices |-> IF i + 1 <= Len(l) THEN l[i + 1] ELSE buf[i]]

\* insert_led() had it dropped the first element, as append_led() does
insert_led_drop_first(buf, position, rgb) ==
    LET l == ListInsert(AsList(buf), position, rgb)
    IN  WriteBack(buf, SubSeq(l, 2, Len(l)))

\* insert_led(position, rgb): copy, insert, drop the last element, write
\* the list back into the buffer; nothing is sent to the strip
insert_led(buf, position, rgb) ==
    LET l == ListInsert(AsList(buf), position, rgb)
    IN  WriteBack(buf, SubSeq(l, 1, Len(l) - 1))

\* append_led(rgb): copy, append, drop the first element, write back
append_led(buf, rgb) ==
    LET l == Append(AsList(buf), rgb)
    IN  WriteBack(buf, SubSeq(l, 2, Len(l)))

InsertLed ==
    /\ pc = "idle"
    /\ anim.kind = "strip"
    /\ obs.ops < MaxStripOps
    /\ \E position \in (0 - 1)..N, rgb \in StripColors :
          /\ leds' = insert_led(leds, position, rgb)
          /\ obs' = [obs EXCEPT !.ops = @ + 1,
                                !.last_op = [name |-> "insert", position |-> position,
                                             rgb |-> rgb],
                                !.prev_leds = leds]
    /\ UNCHANGED <<config, pc, error, loops, brightness, pulse_state, rainbow_state,
                   fade, cancelled>>

AppendLed ==
    /\ pc = "idle"
    /\ anim.kind = "strip"
    /\ obs.ops < MaxStripOps
    /\ \E rgb \in StripColors :
          /\ leds' = append_led(leds, rgb)
          /\ obs' = [obs EXCEPT !.ops = @ + 1,
                                !.last_op = [name |-> "append", position |-> 0,
                                             rgb |-> rgb],
                                !.prev_leds = leds]
    /\ UNCHANGED <<config, pc, error, loops, brightness, pulse_state, rainbow_state,
                   fade, cancelled>>

(***************************************************************************)
(* LightUp.                                                                *)
(***************************************************************************)
\* LightUp.__init__
LightUpInit ==
    /\ pc = "idle"
    /\ anim.kind = "pulse"
    /\ LET w == write_wait_time(anim.duration_ms, anim.brightness_max)
       IN  IF w.ok
           THEN /\ pc' = "ready"
                /\ wait_us' = w.us
                /\ error' = error
           ELSE /\ pc' = "raised"
                /\ error' = "ZeroDivisionError"
                /\ wait_us' = wait_us
    /\ loops' = 0
    /\ cursor' = 1
    /\ brightness' = anim.brightness_max
    /\ UNCHANGED <<config, leds, phase, steps, selected_leds, rainbow_state,
                   fade, cancelled, obs>>

\* glow(), up to the loop: logger.debug("Light up:"), then off()
LightUpEnter ==
    /\ pc = "ready"
    /\ anim.kind = "pulse"
    /\ LoggerDebug(TRUE) = "ok"
    /\ leds' = AllLeds(Black)
    /\ obs' = Commit([obs EXCEPT !.frames = 0, !.leds0 = leds], AllLeds(Black), "off", DefaultWaitUs)
    /\ pc' = "cycle"
    /\ UNCHANGED <<config, error, loops, brightness, pulse_state, rainbow_state,
                   fade, cancelled>>

\* the head of the outer loop: brightness = 0, correct(), the selector is
\* resolved, steps = 0, step_height is computed
LightUpCycleStart ==
    /\ pc = "cycle"
    /\ loops < MaxCycles
    /\ \E pick \in 0..(Len(get_sections(N)) - 1) :
          LET res == get_led_selectors(N, anim.sections, pick)
          IN  /\ selected_leds' = res
              /\ IF res.status \in {"ok", "None"}
                 THEN pc' = "ramp" /\ error' = error
                 ELSE pc' = "raised" /\ error' = res.status
    /\ brightness' = ColorCorrect(0, anim.brightness_max)
    /\ phase' = "up"
    /\ steps' = 0
    /\ obs' = [obs EXCEPT !.ramp = <<>>, !.ramp_us = 0, !.written = {},
                          !.cycle_sets = {},
                          !.cycle_leds0 = leds,
                          !.resolved = @ + 1,
                          !.first_sel = IF obs.resolved = 0 THEN selected_leds'.leds ELSE @]
    /\ UNCHANGED <<config, leds, loops, cursor, wait_us, rainbow_state, fade,
                   cancelled>>

\* for i in self.selected_leds: self.led_strip.leds[i] = self.colors.selected
\* The stores happen in order; the first index outside the buffer raises
\* IndexError and the stores before it stay.
InRangePrefix(sel) ==
    IF \A j \in 1..Len(sel) : sel[j] < N THEN sel
    ELSE SubSeq(sel, 1, (CHOOSE j \in 1..Len(sel) :
                            sel[j] >= N /\ \A h \in 1..(j - 1) : sel[h] < N) - 1)

\* the stores had they set every other LED to black
PaintOthersBlack(buf, sel, rgb) ==
    [i \in Indices |-> IF \E j \in 1..Len(sel) : sel[j] = i THEN rgb ELSE Black]

Paint(buf, sel, rgb) ==
    [i \in Indices |-> IF \E j \in 1..Len(sel) : sel[j] = i THEN rgb ELSE buf[i]]

\* the ramp loops had they resolved the selector anew for every frame
LightUpRampStepResolving ==
    /\ pc = "ramp"
    /\ steps < 10
    /\ IF selected_leds.status = "None"
       THEN /\ pc' = "raised"
            /\ error' = "TypeError"
            /\ UNCHANGED <<leds, brightness, phase, steps, obs>>
       ELSE LET sel  == get_led_selectors(N, anim.sections,
                                          (obs.ramp_frames + loops) % Len(get_sections(N))).leds
                rgb  == ColorSelected(cursor, brightness)
                pre  == InRangePrefix(sel)
                buf  == Paint(leds, pre, rgb)
                wr   == {sel[j] : j \in 1..Len(sel)}
            IN  IF Len(pre) < Len(sel)
                THEN /\ leds' = buf
                     /\ pc' = "raised"
                     /\ error' = "IndexError"
                     /\ obs' = [obs EXCEPT !.written = wr]
                     /\ UNCHANGED <<brightness, phase, steps>>
                ELSE /\ leds' = buf
                     /\ obs' = [Commit(obs, buf, "ramp", wait_us) EXCEPT
                                   !.ramp = Append(@, brightness),
                                   !.ramp_us = @ + wait_us,
                                   !.ramp_frames = @ + 1,
                                   !.cycle_sets = @ \cup {wr},
                                   !.written = wr]
                     /\ IF Sleep(wait_us) # "ok"
                        THEN /\ pc' = "raised"
                             /\ error' = Sleep(wait_us)
                             /\ UNCHANGED <<brightness, phase, steps>>
                        ELSE /\ brightness' =
                                   ColorCorrect(IF phase = "up"
                                                THEN brightness + step_height(anim.brightness_max)
                                                ELSE brightness - step_height(anim.brightness_max),
                                                anim.brightness_max)
                             /\ error' = error
                             /\ IF steps + 1 < 10
                                THEN steps' = steps + 1 /\ phase' = phase /\ pc' = pc
                                ELSE IF phase = "up"
                                     THEN steps' = 0 /\ phase' = "down" /\ pc' = pc
                                     ELSE steps' = 10 /\ phase' = phase /\ pc' = "cycle_end"
    /\ UNCHANGED <<config, loops, cursor, selected_leds, wait_us, rainbow_state,
                   fade, cancelled>>

\* one iteration of either ramp loop: the selection is painted, the frame
\* written, brightness stepped and corrected, steps incremented; leaving the
\* up loop resets steps, leaving the down loop ends the ramp
LightUpRampStep ==
    /\ pc = "ramp"
    /\ steps < 10
    /\ IF selected_leds.status = "None"
       THEN /\ pc' = "raised"
            /\ error' = "TypeError"
            /\ UNCHANGED <<leds, brightness, phase, steps, obs>>
       ELSE LET sel  == selected_leds.leds
                rgb  == ColorSelected(cursor, brightness)
                pre  == InRangePrefix(sel)
                buf  == Paint(leds, pre, rgb)
                wr   == {sel[j] : j \in 1..Len(sel)}
            IN  IF Len(pre) < Len(sel)
                THEN /\ leds' = buf
                     /\ pc' = "raised"
                     /\ error' = "IndexError"
                     /\ obs' = [obs EXCEPT !.written = wr]
                     /\ UNCHANGED <<brightness, phase, steps>>
                ELSE /\ leds' = buf
                     /\ obs' = [Commit(obs, buf, "ramp", wait_us) EXCEPT
                                   !.ramp = Append(@, brightness),
                                   !.ramp_us = @ + wait_us,
                                   !.ramp_frames = @ + 1,
                                   !.cycle_sets = @ \cup {wr},
                                   !.written = wr]
                     /\ IF Sleep(wait_us) # "ok"
                        THEN /\ pc' = "raised"
                             /\ error' = Sleep(wait_us)
                             /\ UNCHANGED <<brightness, phase, steps>>
                        ELSE /\ brightness' =
                                   ColorCorrect(IF phase = "up"
                                                THEN brightness + step_height(anim.brightness_max)
                                                ELSE brightness - step_height(anim.brightness_max),
                                                anim.brightness_max)
                             /\ error' = error
                             /\ IF steps + 1 < 10
                                THEN steps' = steps + 1 /\ phase' = phase /\ pc' = pc
                                ELSE IF phase = "up"
                                     THEN steps' = 0 /\ phase' = "down" /\ pc' = pc
                                     ELSE steps' = 10 /\ phase' = phase /\ pc' = "cycle_end"
    /\ UNCHANGED <<config, loops, cursor, selected_leds, wait_us, rainbow_state,
                   fade, cancelled>>

\* glow() had it faded the strip out when the loop limit is met
LightUpCycleEndWithFadeout ==
    /\ pc = "cycle_end"
    /\ cursor' = ColorNext(cursor)
    /\ IF anim.pause_ms # None /\ Sleep(anim.pause_ms * 1000) # "ok"
       THEN /\ obs' = [obs EXCEPT !.last_sleep_us = anim.pause_ms * 1000]
            /\ pc' = "raised"
            /\ error' = Sleep(anim.pause_ms * 1000)
            /\ loops' = loops
       ELSE /\ obs' = [obs EXCEPT !.cycles = @ + 1,
                                  !.limit_hit = anim.loop_limit # None
                                                /\ anim.loop_limit = loops + 1,
                                  !.last_sleep_us = IF anim.pause_ms # None
                                                    THEN anim.pause_ms * 1000 ELSE @]
            /\ loops' = loops + 1
            /\ IF anim.loop_limit # None /\ anim.loop_limit = loops + 1
               THEN pc' = "fadeout" /\ error' = error
               ELSE pc' = "cycle" /\ error' = error
    /\ UNCHANGED <<config, leds, brightness, phase, steps, selected_leds, wait_us,
                   rainbow_state, fade, cancelled>>

\* after the ramps: colors.next(), the pause, loops += 1, the loop limit
LightUpCycleEnd ==
    /\ pc = "cycle_end"
    /\ cursor' = ColorNext(cursor)
    /\ IF anim.pause_ms # None /\ Sleep(anim.pause_ms * 1000) # "ok"
       THEN /\ obs' = [obs EXCEPT !.last_sleep_us = anim.pause_ms * 1000]
            /\ pc' = "raised"
            /\ error' = Sleep(anim.pause_ms * 1000)
            /\ loops' = loops
       ELSE /\ obs' = [obs EXCEPT !.cycles = @ + 1,
                                  !.limit_hit = anim.loop_limit # None
                                                /\ anim.loop_limit = loops + 1,
                                  !.last_sleep_us = IF anim.pause_ms # None
                                                    THEN anim.pause_ms * 1000 ELSE @]
            /\ loops' = loops + 1
            /\ IF anim.loop_limit # None /\ anim.loop_limit = loops + 1
               THEN IF LoggerDebug(FALSE) = "ok"
                    THEN pc' = "returned" /\ error' = error
                    ELSE pc' = "raised" /\ error' = LoggerDebug(FALSE)
               ELSE pc' = "cycle" /\ error' = error
    /\ UNCHANGED <<config, leds, brightness, phase, steps, selected_leds, wait_us,
                   rainbow_state, fade, cancelled>>

(***************************************************************************)
(* RainbowAnimation.                                                       *)
(***************************************************************************)
\* the pause had it been the whole of pause_ms
PauseSleepUsWhole(pause_ms) == pause_ms * 1000

\* the pause at a cycle completion: (pause_ms - 10) / 1000 seconds
PauseSleepUs(pause_ms) == (pause_ms - pause_write_ms) * 1000

\* RainbowAnimation.__init__
RainbowInit ==
    /\ pc = "idle"
    /\ anim.kind = "rainbow"
    /\ pc' = "ready"
    /\ time_passed_ms' = 0
    /\ UNCHANGED <<config, leds, error, loops, brightness, pulse_state, counter,
                   max_counter, fade, cancelled, obs>>

\* glow(), up to the loop: logger.debug("Rainbow:") needs the name logger,
\* then counter = 0, loops = 0, max_counter = self.get_max_counter()
RainbowEnter ==
    /\ pc = "ready"
    /\ anim.kind = "rainbow"
    /\ IF anim.logger_bound
       THEN /\ pc' = "rloop"
            /\ error' = error
            /\ counter' = 0
            /\ loops' = 0
            /\ max_counter' = get_max_counter(anim.duration_ms)
       ELSE /\ pc' = "raised"
            /\ error' = "NameError"
            /\ UNCHANGED <<counter, loops, max_counter>>
    /\ obs' = [obs EXCEPT !.frames = 0, !.leds0 = leds]
    /\ UNCHANGED <<config, leds, brightness, pulse_state, time_passed_ms, fade,
                   cancelled>>

\* the stores of one rainbow frame, LED by LED in range() order; a store
\* outside the buffer raises IndexError and the stores before it stay
RainbowTargets == [j \in 1..N |-> get_led(j - 1, strip.start_led, N)]

RainbowPaint(buf, targets, t, b) ==
    [i \in Indices |->
        IF \E j \in 1..Len(targets) : targets[j] = i
        THEN rainbow_color(t, i, b) ELSE buf[i]]

\* a loop iteration with counter # max_counter: brightness, virtual time,
\* every LED recoloured, write(), counter += 1, loops += 1
RainbowFrame ==
    /\ pc = "rloop"
    /\ counter # max_counter
    /\ loops < MaxLoops
    /\ LET b   == IterationBrightness(anim.duration_ms, anim.pause_ms,
                                      anim.brightness_max, loops, counter, max_counter)
           t   == time_passed_ms + added_ms(anim.duration_ms)
           tg  == RainbowTargets
           pre == InRangePrefix(tg)
           buf == RainbowPaint(leds, pre, t, b)
           wr  == {tg[j] : j \in 1..Len(tg)}
       IN  /\ brightness' = b
           /\ time_passed_ms' = t
           /\ leds' = buf
           /\ IF Len(pre) < Len(tg)
              THEN /\ pc' = "raised"
                   /\ error' = "IndexError"
                   /\ obs' = [obs EXCEPT !.written = wr]
                   /\ UNCHANGED <<counter, loops>>
              ELSE /\ pc' = pc
                   /\ error' = error
                   /\ obs' = [Commit(obs, buf, "rainbow", DefaultWaitUs) EXCEPT
                                 !.written = wr,
                                 !.last_iter = "frame",
                                 !.rb_levels = IF Len(@) < 10 THEN Append(@, b) ELSE @,
                                 !.last_rb = [lp |-> loops, counter |-> counter, b |-> b],
                                 !.cycle_frames = @ + 1]
                   /\ counter' = counter + 1
                   /\ loops' = loops + 1
    /\ UNCHANGED <<config, pulse_state, max_counter, fade, cancelled>>

\* a loop iteration with counter = max_counter: brightness, the blank pause
\* when both duration_ms and pause_ms are set, counter = 0, loops += 1, the
\* loop limit
RainbowCycleEnd ==
    /\ pc = "rloop"
    /\ counter = max_counter
    /\ loops < MaxLoops
    /\ brightness' = IterationBrightness(anim.duration_ms, anim.pause_ms,
                                         anim.brightness_max, loops, counter, max_counter)
    /\ IF anim.duration_ms # None /\ anim.pause_ms # None
       THEN /\ leds' = AllLeds(Black)
            /\ obs' = [Commit(obs, AllLeds(Black), "off", DefaultWaitUs) EXCEPT
                          !.last_sleep_us = PauseSleepUs(anim.pause_ms),
                          !.cycles = IF Sleep(PauseSleepUs(anim.pause_ms)) = "ok"
                                     THEN @ + 1 ELSE @,
                          !.last_iter = "end",
                          !.limit_hit = /\ Sleep(PauseSleepUs(anim.pause_ms)) = "ok"
                                        /\ anim.loop_limit # None
                                        /\ anim.loop_limit = loops + 1,
                          !.end_frames = obs.cycle_frames,
                          !.end_commits = 1,
                          !.cycle_frames = 0]
       ELSE /\ leds' = leds
            /\ obs' = [obs EXCEPT !.cycles = @ + 1,
                                  !.limit_hit = anim.loop_limit # None
                                                /\ anim.loop_limit = loops + 1,
                                  !.last_iter = "end",
                                  !.end_frames = obs.cycle_frames,
                                  !.end_commits = 0,
                                  !.cycle_frames = 0]
    /\ IF /\ anim.duration_ms # None /\ anim.pause_ms # None
          /\ Sleep(PauseSleepUs(anim.pause_ms)) # "ok"
       THEN /\ pc' = "raised"
            /\ error' = Sleep(PauseSleepUs(anim.pause_ms))
            /\ UNCHANGED <<counter, loops>>
       ELSE /\ counter' = 0
            /\ loops' = loops + 1
            /\ IF anim.loop_limit # None /\ anim.loop_limit = loops + 1
               THEN IF LoggerDebug(FALSE) = "ok"
                    THEN pc' = "returned" /\ error' = error
                    ELSE pc' = "raised" /\ error' = LoggerDebug(FALSE)
               ELSE pc' = pc /\ error' = error
    /\ UNCHANGED <<config, pulse_state, max_counter, time_passed_ms, fade, cancelled>>

(***************************************************************************)
(* NeoPixel.color().                                                       *)
(***************************************************************************)
\* round(original * brightness), saturated; brightness = k tenths
ColorScale(orig, k) == Saturate(RoundHalfEven(orig * k, 10))

ColorTargets == [j \in 1..N |-> get_led(j - 1, strip.start_led, N)]

\* color(), up to the loop: logger.debug("color:"), the three channels of
\* rgb_colors[0], brightness = 0.1
ColorEnter ==
    /\ pc = "idle"
    /\ anim.kind = "color"
    /\ LoggerDebug(TRUE) = "ok"
    /\ brightness' = 100
    /\ pc' = "color"
    /\ obs' = [obs EXCEPT !.frames = 0, !.leds0 = leds]
    /\ UNCHANGED <<config, leds, error, loops, pulse_state, rainbow_state, fade,
                   cancelled>>

\* one iteration of while brightness <= 1: every LED set to the scaled
\* colour, write(), brightness += 0.1; the sum of ten 0.1 is just below 1,
\* so the tenth iteration still runs; then the method sleeps for good
ColorStep ==
    /\ pc = "color"
    /\ brightness <= 1000
    /\ LET rgb == [c \in 1..3 |-> ColorScale(anim.rgb_colors[1][c], brightness \div 100)]
           tg  == ColorTargets
           pre == InRangePrefix(tg)
           buf == Paint(leds, pre, rgb)
           wr  == {tg[j] : j \in 1..Len(tg)}
       IN  /\ leds' = buf
           /\ IF Len(pre) < Len(tg)
              THEN /\ pc' = "raised"
                   /\ error' = "IndexError"
                   /\ obs' = [obs EXCEPT !.written = wr]
                   /\ brightness' = brightness
              ELSE /\ error' = error
                   /\ obs' = [Commit(obs, buf, "color", DefaultWaitUs) EXCEPT !.written = wr]
                   /\ brightness' = brightness + 100
                   /\ pc' = IF brightness + 100 > 1000 THEN "hold" ELSE pc
    /\ UNCHANGED <<config, loops, pulse_state, rainbow_state, fade, cancelled>>

(***************************************************************************)
(* Cancellation: except KeyboardInterrupt -> fadeout(), logger.debug(),    *)
(* sys.exit(0).                                                            *)
(***************************************************************************)
InFrameLoop == pc \in {"cycle", "ramp", "cycle_end", "rloop", "color", "hold"}

\* the handler had it exited without calling fadeout()
KeyboardInterruptNoFadeout ==
    /\ InFrameLoop
    /\ cancelled' = TRUE
    /\ pc' = "fadeout"
    /\ fade' = 0 - 1
    /\ obs' = [obs EXCEPT !.cancel_leds = leds]
    /\ UNCHANGED <<config, leds, error, loops, brightness, pulse_state, rainbow_state>>

\* The interrupt is raised somewhere in the frame loop.  It may arrive
\* while a frame is being assembled: part of the buffer already holds the
\* next frame's colours and nothing of it was written.
KeyboardInterrupt ==
    /\ InFrameLoop
    /\ \E partial \in BOOLEAN :
          /\ partial => \/ pc = "ramp" /\ selected_leds.status = "ok"
                        \/ pc = "rloop" /\ counter # max_counter
                        \/ pc = "color"
          /\ leds' = IF ~partial THEN leds
                     ELSE IF pc = "ramp"
                          THEN Paint(leds, InRangePrefix(selected_leds.leds),
                                     ColorSelected(cursor, brightness))
                     ELSE IF pc = "color"
                          THEN Paint(leds, InRangePrefix(ColorTargets),
                                     [c \in 1..3 |-> ColorScale(anim.rgb_colors[1][c],
                                                                brightness \div 100)])
                          ELSE RainbowPaint(leds, InRangePrefix(RainbowTargets),
                                            time_passed_ms + added_ms(anim.duration_ms),
                                            IterationBrightness(anim.duration_ms,
                                                anim.pause_ms, anim.brightness_max,
                                                loops, counter, max_counter))
    /\ cancelled' = TRUE
    /\ pc' = "fadeout"
    /\ fade' = 9
    /\ obs' = [obs EXCEPT !.cancel_leds = leds']
    /\ UNCHANGED <<config, error, loops, brightness, pulse_state, rainbow_state>>

\* fadeout() had it lowered the multiplier by 0.2
FadeoutStepByTwo ==
    /\ pc = "fadeout"
    /\ fade >= 0
    /\ LET buf == [i \in Indices |-> FadeTriple(leds[i], fade)]
       IN  /\ leds' = buf
           /\ obs' = [Commit(obs, buf, "fade", FadeoutWaitUs) EXCEPT
                         !.fade_mults = Append(@, fade)]
    /\ fade' = fade - 2
    /\ UNCHANGED <<config, pc, error, loops, brightness, pulse_state, rainbow_state,
                   cancelled>>

\* one iteration of fadeout()'s loop: every LED scaled by the multiplier
\* and saturated, the multiplier lowered by 0.1, write(0.001)
FadeoutStep ==
    /\ pc = "fadeout"
    /\ fade >= 0
    /\ LET buf == [i \in Indices |-> FadeTriple(leds[i], fade)]
       IN  /\ leds' = buf
           /\ obs' = [Commit(obs, buf, "fade", FadeoutWaitUs) EXCEPT
                         !.fade_mults = Append(@, fade)]
    /\ fade' = fade - 1
    /\ UNCHANGED <<config, pc, error, loops, brightness, pulse_state, rainbow_state,
                   cancelled>>

\* the rest of the handler once fadeout() has returned: logger.debug(),
\* then sys.exit(0)
HandlerExit ==
    /\ pc = "fadeout"
    /\ fade < 0
    /\ IF anim.kind = "rainbow" /\ ~anim.logger_bound
       THEN pc' = "raised" /\ error' = "NameError"
       ELSE IF LoggerDebug(FALSE) = "ok"
            THEN pc' = "exited" /\ error' = error
            ELSE pc' = "raised" /\ error' = LoggerDebug(FALSE)
    /\ UNCHANGED <<config, leds, loops, brightness, pulse_state, rainbow_state,
                   fade, cancelled, obs>>

Next ==
    \/ StripOn
    \/ InsertLed
    \/ AppendLed
    \/ LightUpInit
    \/ LightUpEnter
    \/ LightUpCycleStart
    \/ LightUpRampStep
    \/ LightUpCycleEnd
    \/ RainbowInit
    \/ RainbowEnter
    \/ RainbowFrame
    \/ RainbowCycleEnd
    \/ ColorEnter
    \/ ColorStep
    \/ KeyboardInterrupt
    \/ FadeoutStep
    \/ HandlerExit

Spec == Init /\ [][Next]_vars

Final == pc \in {"raised", "returned", "exited"}

(***************************************************************************)
(* Properties.                                                             *)
(***************************************************************************)
IsPulse == anim.kind = "pulse"
IsRainbow == anim.kind = "rainbow"
IsColor == anim.kind = "color"

\* C1: a pulse animation with loop_limit = 1, a positive duration and no
\* pause commits one
\* up/down ramp of exactly 20 frames and then glow() returns normally: a
\* run that has ended without an interrupt has ended by returning, with no
\* exception, after 20 ramp frames.
C1_OneRampThenReturns ==
    ( /\ IsPulse
      /\ anim.loop_limit = 1
      /\ anim.duration_ms > 0
      /\ anim.pause_ms = None
      /\ anim.sections = Keyword("all")
      /\ anim.brightness_max = 1000
      /\ Final
      /\ ~cancelled )
    => ( /\ pc = "returned"
         /\ error = ""
         /\ obs.ramp_frames = 20 )

\* C2: once an interrupt raised in the frame loop has been handled up to
\* the end of fadeout(), the frame committed last is black on every LED and
\* was committed by fadeout(), whatever the buffer held at the interrupt.
C2_BlackAfterCancel ==
    (cancelled /\ (pc = "fadeout" => fade < 0))
    => ( /\ obs.last_frame = AllLeds(Black)
         /\ obs.last_kind = "fade"
         /\ leds = AllLeds(Black) )

\* C2 witness: a pulse animation was interrupted in the middle of a ramp,
\* with lit LEDs in its buffer, and the handler has finished.
C2_Witness ==
    /\ cancelled
    /\ Final
    /\ IsPulse
    /\ obs.cancel_leds # AllLeds(Black)
    /\ obs.ramp_frames = 7
    /\ obs.fade_frames = 10

\* C3: a cancelled pulse or rainbow run ends by sys.exit(0), after fadeout() has run to
\* completion and with no animation frame committed after the interrupt.
C3_CancelEndsInExit ==
    ((IsPulse \/ IsRainbow) /\ cancelled /\ Final)
    => ( /\ pc = "exited"
         /\ obs.fade_frames = 10
         /\ obs.after_cancel = 0 )

\* C4: with a loop limit L >= 1 and no interrupt the rainbow animation
\* stops at its L-th cycle completion: while the loop is still running
\* fewer than L cycles have completed, and a run that returned has completed
\* exactly L cycles of get_max_counter() frames.
C4_StopsAtLthCycle ==
    (IsRainbow /\ anim.loop_limit # None /\ ~cancelled)
    => ( /\ pc = "rloop" => obs.cycles < anim.loop_limit
         /\ pc = "returned" =>
               /\ obs.cycles = anim.loop_limit
               /\ loops = anim.loop_limit )

\* C5: at the end of a pulse cycle 20 ramp frames have been committed, the
\* first at brightness 0, each of the next 10 higher by brightness_max / 10,
\* the 11th at brightness_max, each later one lower by brightness_max / 10,
\* and brightness is back at 0.
C5_TenEqualStepsUpAndDown ==
    (IsPulse /\ pc = "cycle_end")
    => ( /\ Len(obs.ramp) = 20
         /\ obs.ramp[1] = 0
         /\ obs.ramp[11] = anim.brightness_max
         /\ \A k \in 1..10 : 10 * (obs.ramp[k + 1] - obs.ramp[k]) = anim.brightness_max
         /\ \A k \in 11..19 : 10 * (obs.ramp[k] - obs.ramp[k + 1]) = anim.brightness_max
         /\ brightness = 0 )

\* C6: the per-step delay of the pulse animation is
\* duration_ms / ((round(brightness_max, 1) / 0.1) * 2) / 1000 seconds and
\* the delays of the 20 ramp frames of a cycle add up to duration_ms, within
\* a tenth of it.
C6_RampTakesDuration ==
    (IsPulse /\ pc = "cycle_end")
    => ( /\ 2 * RoundedBrightness(anim.brightness_max) * wait_us
               = anim.duration_ms * 1000
         /\ 10 * obs.ramp_us <= 11 * anim.duration_ms * 1000
         /\ 10 * obs.ramp_us >= 9 * anim.duration_ms * 1000 )

\* C7 as stated: get_max_counter() is 17 for duration_ms = 1000 and 9 for
\* duration_ms = 500.
C7_HalfRoundsUp ==
    (IsRainbow /\ pc = "rloop")
    => ( /\ anim.duration_ms = 1000 => max_counter = 17
         /\ anim.duration_ms = 500 => max_counter = 9 )

\* C7 amended: get_max_counter() is the integer nearest to
\* duration_ms * 17 / 1000, the even one of the two when both are equally
\* near: 17 for duration_ms = 1000 and 8 for duration_ms = 500.
C7_HalfRoundsToEven ==
    (IsRainbow /\ pc = "rloop")
    => ( /\ 2 * (1000 * max_counter - 17 * anim.duration_ms) <= 1000
         /\ 2 * (17 * anim.duration_ms - 1000 * max_counter) <= 1000
         /\ 2 * (17 * anim.duration_ms - 1000 * max_counter) \in {1000, 0 - 1000}
               => max_counter % 2 = 0
         /\ anim.duration_ms = 1000 => max_counter = 17
         /\ anim.duration_ms = 500 => max_counter = 8 )

\* C7 witness: the frame loop of a 500 ms rainbow runs with 8 frames a cycle.
C7_Witness ==
    /\ IsRainbow
    /\ pc = "rloop"
    /\ anim.duration_ms = 500
    /\ max_counter = 8

\* an explicit selector with a section index outside 0..number_of_sections-1
\* or with a name that does not normalise to an integer
OutOfRange(k) == k < 0 \/ k >= Len(get_sections(N))

Unresolvable(sel) ==
    \/ sel.kind = "ints" /\ \E j \in 1..Len(sel.ints) : OutOfRange(sel.ints[j])
    \/ sel.kind = "names" /\ \E j \in 1..Len(sel.names) :
          \/ ~NameToIndex(sel.names[j]).ok
          \/ OutOfRange(NameToIndex(sel.names[j]).val)

\* C8: resolving an explicit index outside 0..number_of_sections-1
\* (negative ones and the one of the name 'Section 0' included) or a name
\* that does not parse ends in an addressing error and yields no LED list.
C8_OutOfRangeFails ==
    (IsPulse /\ Unresolvable(anim.sections) /\ pc \in {"ramp", "raised"} /\ ~cancelled)
    => ( /\ selected_leds.status \in {"IndexError", "ValueError"}
         /\ selected_leds.leds = <<>> )

\* C9: when the pulse animation fails on its selector, no frame has been
\* committed since glow() was entered and no LED differs from its value at
\* that moment.
C9_SelectorFailsBeforeAnyFrame ==
    (IsPulse /\ pc = "raised" /\ selected_leds.status # "ok" /\ ~cancelled)
    => ( /\ obs.frames = 0
         /\ leds = obs.leds0 )

\* C10: get_led maps every logical index 0..addressable_strip_length-1 to
\* an index of the buffer, for every start_led, so every index a rainbow
\* frame stores to lies in 0..strip_length-1.
C10_RainbowWritesInsideBuffer ==
    IsRainbow => obs.written \subseteq Indices

\* the set of indices of a resolved selector
IndexSet(l) == {l[j] : j \in 1..Len(l)}

\* C11 as stated: two resolutions of the same selector on the same strip
\* return the same LED index set, the keywords 'all' and 'random' included.
C11_EveryResolutionAgrees ==
    (IsPulse /\ obs.resolved >= 1 /\ selected_leds.status = "ok")
    => IndexSet(selected_leds.leds) = IndexSet(obs.first_sel)

\* C11 amended: two resolutions of the same selector on the same strip
\* return the same LED indices, in the same order, unless the selector is
\* 'random' and the strip has more than one section.
C11_ResolutionAgreesUnlessRandom ==
    ( /\ IsPulse
      /\ obs.resolved >= 1
      /\ ~(anim.sections = Keyword("random") /\ Len(get_sections(N)) > 1) )
    => selected_leds.leds = obs.first_sel

\* C11 witness: a selector given by names has been resolved a second time.
C11_Witness ==
    /\ IsPulse
    /\ obs.resolved = 2
    /\ anim.sections = NameList(<<NameSection2>>)
    /\ selected_leds.leds = obs.first_sel
    /\ Len(selected_leds.leds) = sections_length

\* C12: every delay an animation passes to a blocking sleep (the delay after
\* a frame's write and the pause between cycles) is non-negative, for every
\* duration_ms, pause_ms and brightness_max.
C12_SleepsNonNegative == obs.last_sleep_us >= 0

\* C13: fadeout() commits one frame per multiplier 0.9, 0.8, ..., 0.0, each
\* followed by a 0.001 s delay and with every channel in 0..255; it stops
\* after the tenth, and then every LED of the buffer is (0,0,0).
C13_FadeoutTenFramesToBlack ==
    cancelled
    => ( /\ obs.fade_mults = [j \in 1..obs.fade_frames |-> 10 - j]
         /\ obs.fade_frames = 9 - fade
         /\ obs.fade_frames <= 10
         /\ obs.fade_frames >= 1 =>
               /\ obs.last_kind = "fade"
               /\ obs.last_wait_us = FadeoutWaitUs
               /\ \A i \in Indices : \A c \in 1..3 : obs.last_frame[i][c] \in 0..255
         /\ (pc # "fadeout" \/ fade < 0) =>
               /\ obs.fade_frames = 10
               /\ leds = AllLeds(Black) )

\* C13 witness: fadeout() has returned after starting from a rainbow frame
\* with lit LEDs.
C13_Witness ==
    /\ IsRainbow
    /\ cancelled
    /\ pc = "fadeout"
    /\ fade < 0
    /\ \E i \in Indices : \E c \in 1..3 : obs.cancel_leds[i][c] > 100
    /\ obs.fade_mults = <<9, 8, 7, 6, 5, 4, 3, 2, 1, 0>>
    /\ leds = AllLeds(Black)

\* C14: every channel of the LED buffer, and of every committed frame, is an
\* integer in 0..255 after any sequence of off(), on(), pulse, rainbow and
\* color() frames and fadeout() steps, whatever the brightness and the
\* colour asked for.
C14_ChannelsInByteRange ==
    \A i \in Indices : \A c \in 1..3 :
        /\ leds[i][c] \in 0..255
        /\ obs.last_frame[i][c] \in 0..255

\* C14 witness: color() asked for (300, -20, 7) has committed its frame at
\* full brightness, the first channel cut to 255 and the second to 0.
C14_Witness ==
    /\ IsColor
    /\ anim.rgb_colors = << <<300, 0 - 20, 7>> >>
    /\ pc = "hold"
    /\ obs.frames = 10
    /\ obs.last_kind = "color"
    /\ leds = AllLeds(<<255, 0, 7>>)

\* C15: resolving 'all' returns exactly strip_length indices, 0, 1, ...,
\* strip_length - 1 in ascending order, for every strip length (also one
\* below or not a multiple of the section length).
C15_AllIsEveryIndexAscending ==
    (IsPulse /\ anim.sections = Keyword("all") /\ obs.resolved >= 1)
    => ( /\ selected_leds.status = "ok"
         /\ Len(selected_leds.leds) = N
         /\ \A j \in 1..N : selected_leds.leds[j] = j - 1
         /\ IndexSet(selected_leds.leds) = Indices )

\* C15 witness: 'all' has been resolved on a strip of 16 LEDs, one more than
\* a section holds.
C15_Witness ==
    /\ IsPulse
    /\ anim.sections = Keyword("all")
    /\ N = 16
    /\ obs.resolved = 1
    /\ pc = "ramp"
    /\ Len(selected_leds.leds) = 16
    /\ selected_leds.leds[16] = 15

\* the name 'Section k' among the selectors tried
SectionName(k) == IF k = 1 THEN NameSection1 ELSE NameSection2

\* C16: for every k from 1 to the number of sections, resolving the name
\* list ['Section k'] returns the LED index sequence that resolving the
\* index list [k-1] returns, the LEDs of section k-1.
C16_NameIsIndexPlusOne ==
    \A k \in 1..2 :
        ( /\ IsPulse
          /\ obs.resolved >= 1
          /\ k <= Len(get_sections(N))
          /\ anim.sections = NameList(<<SectionName(k)>>) )
        => ( /\ selected_leds.status = "ok"
             /\ selected_leds = get_led_selectors(N, IndexList(<<k - 1>>), 0)
             /\ selected_leds.leds = get_sections(N)[k] )

\* C16 witness: ['Section 1'] has been resolved on a strip of 30 LEDs and
\* gave LEDs 0..14.
C16_Witness ==
    /\ IsPulse
    /\ N = 30
    /\ anim.sections = NameList(<<NameSection1>>)
    /\ obs.resolved = 1
    /\ selected_leds.leds = [j \in 1..sections_length |-> j - 1]

\* C17: insert_led and append_led keep the buffer at its length and move it
\* by one place.  After insert_led(p, rgb) with 0 <= p < strip_length the
\* LEDs before p are unchanged, LED p is rgb, every LED after p holds what
\* its left neighbour held and the former last LED is gone; after
\* append_led(rgb) every LED holds what its right neighbour held, the last
\* LED is rgb and the former first LED is gone.
C17_InsertAppendConveyor ==
    (anim.kind = "strip" /\ obs.ops >= 1)
    => ( /\ DOMAIN leds = Indices
         /\ ( obs.last_op.name = "insert"
              /\ obs.last_op.position >= 0 /\ obs.last_op.position < N )
            => \A i \in Indices :
                  leds[i] = IF i < obs.last_op.position THEN obs.prev_leds[i]
                            ELSE IF i = obs.last_op.position THEN obs.last_op.rgb
                            ELSE obs.prev_leds[i - 1]
         /\ obs.last_op.name = "append"
            => \A i \in Indices :
                  leds[i] = IF i < N - 1 THEN obs.prev_leds[i + 1]
                            ELSE obs.last_op.rgb )

\* C17 witness: a red LED was inserted at position 1 of a strip that held
\* blue, red, black; the strip now holds blue, red, red.
C17_Witness ==
    /\ anim.kind = "strip"
    /\ obs.last_op = [name |-> "insert", position |-> 1, rgb |-> <<255, 0, 0>>]
    /\ obs.prev_leds = (0 :> <<0, 0, 255>> @@ 1 :> <<255, 0, 0>> @@ 2 :> Black)
    /\ leds = (0 :> <<0, 0, 255>> @@ 1 :> <<255, 0, 0>> @@ 2 :> <<255, 0, 0>>)

C19_FirstTenFramesRampUp ==
    IsRainbow
    => \A j \in 1..Len(obs.rb_levels) :
          obs.rb_levels[j] = (j * anim.brightness_max) \div 10

\* a rainbow frame rendered after the startup fade-in was the last one
SteadyFrame == IsRainbow /\ obs.last_iter = "frame" /\ obs.last_rb.lp >= 10

\* brightness_max times t tenths, in thousandths
Tenths(t) == (t * anim.brightness_max) \div 10

C21_OneResolutionPerCycle ==
    IsPulse
    => ( /\ Cardinality(obs.cycle_sets) <= 1
         /\ (Len(obs.ramp) >= 1 /\ ~cancelled) =>
               obs.cycle_sets = {IndexSet(selected_leds.leds)}
         /\ obs.resolved \in {obs.cycles, obs.cycles + 1}
         /\ (pc \in {"ramp", "cycle_end"}) => obs.resolved = obs.cycles + 1
         /\ pc = "cycle" => obs.resolved = obs.cycles )

\* C21 witness: a 'random' pulse on 30 LEDs got section 0 in its first
\* cycle and section 1 in its second, and all 20 ramp frames of the second
\* cycle stored to section 1 only.
C21_Witness ==
    /\ IsPulse
    /\ N = 30
    /\ anim.sections = Keyword("random")
    /\ obs.resolved = 2
    /\ obs.first_sel = get_sections(N)[1]
    /\ selected_leds.leds = get_sections(N)[2]
    /\ Len(obs.ramp) = 20
    /\ obs.cycle_sets = {IndexSet(get_sections(N)[2])}

\* the rainbow cycle ends with the blank pause: duration_ms and pause_ms set
BlankPause == IsRainbow /\ anim.duration_ms # None /\ anim.pause_ms # None

C23_PulseWritesInsideBuffer ==
    (IsPulse /\ selected_leds.status = "ok")
    => obs.written \subseteq Indices

\* the run has ended in the exception of a logging call: the NameError of
\* the unbound name logger, or the TypeError of logger.debug() without a
\* message at the loop limit or at the end of the interrupt handler
EndedInLoggingError ==
    /\ pc = "raised"
    /\ \/ error = "NameError"
       \/ error = "TypeError" /\ (obs.limit_hit \/ cancelled)

\* C24: no logging statement changes the control flow of the pulse or the
\* rainbow animation: no run ends in an error raised by a logging call, at
\* the start of glow(), at the loop limit or after the fadeout of an
\* interrupt.
C24_NoRunEndsInLoggingError ==
    (IsPulse \/ IsRainbow) => ~EndedInLoggingError

\* C25: during the ramp frames of a pulse cycle only the LEDs of the
\* cycle's selection are modified: every other LED keeps the value it had
\* when the cycle started.  The strip is blanked once, before the first
\* cycle, and never again, so a section selected in an earlier cycle stays
\* at that cycle's last colour.
C25_OnlySelectionModified ==
    (IsPulse /\ obs.resolved >= 1 /\ ~cancelled)
    => ( /\ \A i \in Indices :
               i \notin IndexSet(selected_leds.leds) => leds[i] = obs.cycle_leds0[i]
         /\ obs.off_frames = 1
         /\ Len(obs.ramp) >= 1 =>
               \A i \in Indices :
                  i \notin obs.written => obs.last_frame[i] = obs.cycle_leds0[i] )

\* C25 witness: in the second cycle of a 'random' pulse on 30 LEDs section 1
\* is half-way up its ramp while section 0 still shows the last colour of
\* the first cycle.
C25_Witness ==
    /\ IsPulse
    /\ ~cancelled
    /\ N = 30
    /\ obs.resolved = 2
    /\ selected_leds.leds = get_sections(N)[2]
    /\ Len(obs.ramp) = 10
    /\ leds[0] # Black
    /\ leds[0] = obs.cycle_leds0[0]
    /\ leds[15] # Black
    /\ leds[15] # leds[0]

====
